---- MODULE Spec2Model ----
(***************************************************************************)
(* docker-mysql: a CLI that provisions a MySQL container (prepare), runs   *)
(* ad-hoc commands in it (exec), stops it (stop), drops a database (rm)    *)
(* and removes the container and its volume (down).                        *)
(*                                                                         *)
(* Strings are sequences: a version and a port are sequences of one-       *)
(* character strings, an error text is a sequence of words.  An optional   *)
(* JavaScript value is a record [def, val]; def = FALSE is undefined.      *)
(***************************************************************************)
EXTENDS Integers, Sequences, FiniteSets, TLC

VARIABLES
  \* ---- retryCommand (one call) ----
  successErrorStr,  \* the optional second argument of retryCommand
  promise,          \* "none" | "pending" | "resolved" | "rejected"
  timer,            \* a setTimeout(.., 100) of loop() is pending
  inflight,         \* commandCallback() has been called and has not settled
  threw,            \* the catch handler threw (an unhandled rejection)
  attempts,         \* history: invocations of commandCallback so far
  fails,            \* history: invocations that failed so far
  lastResult,       \* history: how the last settled invocation ended
  matched,          \* history: some failure's stderr text held successErrorStr
  running,          \* the number of invocations of the action in flight
  resolves,         \* history: the number of calls of resolve()
  \* ---- getPort applied to an input ----
  pv,               \* the version given
  pport,            \* the port computed for it ([def |-> FALSE] before)
  \* ---- one run of the tool at a time ----
  cmd,              \* the command line of the run: [name, version, ...]
  pc,               \* where the run is: "idle", the command in flight, "done", "failed"
  trace,            \* history: the external commands issued and the steps completed
  report,           \* the port of the success message ([def |-> FALSE] before)
  \* ---- a second tool process running prepare with the same command line ----
  pc2,              \* where it is: "idle", "up.start", "up.run", a step, "done", "failed"
  trace2,           \* history: its docker commands and the steps it completed
  \* ---- the container runtime, by container name ----
  container,        \* "absent" | "stopped" | "running"
  ready,            \* the engine in the container accepts connections
  volume,           \* the named volume exists
  dbs,              \* the databases stored in the volume
  users,            \* the <<user, password>> accounts stored in the volume
  grants,           \* the <<user, database>> grants stored in the volume
  madeFor           \* history: the version whose docker run created the volume

rvars ==
  <<successErrorStr, promise, timer, inflight, threw, attempts, fails, lastResult, matched,
    running, resolves>>
pvars == <<pv, pport>>
tvars == <<cmd, pc, trace, report>>
qvars == <<pc2, trace2>>
data == <<dbs, users, grants, madeFor>>
wvars == <<container, ready, volume, dbs, users, grants, madeFor>>
vars == <<rvars, pvars, tvars, qvars, wvars>>

\* ------------------------------------------------------------------ bounds
MaxAttempts == 3   \* invocations of the action followed in one retry loop
MaxErrLen == 2     \* words in an arbitrary error text
MaxVerLen == 5     \* characters in an arbitrary version string

\* ------------------------------------------------------------- JS values
Undefined == [def |-> FALSE, val |-> <<>>]
Some(s) == [def |-> TRUE, val |-> s]
\* JavaScript truthiness of an optional string: undefined and '' are falsy.
Truthy(x) == x.def /\ x.val # <<>>

SeqsUpTo(S, n) == UNION {[1..k -> S] : k \in 0..n}

\* String.prototype.includes
Includes(s, sub) ==
  \E i \in 0..(Len(s) - Len(sub)) : SubSeq(s, i + 1, i + Len(sub)) = sub
\* s.slice(0, n)
SliceFirst(s, n) == SubSeq(s, 1, IF Len(s) < n THEN Len(s) ELSE n)
\* s.slice(-n)
SliceLast(s, n) == SubSeq(s, (IF Len(s) < n THEN 0 ELSE Len(s) - n) + 1, Len(s))
\* s.replace(/\./g, r): r is a sequence (empty to delete the dots)
RECURSIVE ReplaceDots(_, _)
ReplaceDots(s, r) ==
  IF s = <<>> THEN <<>>
  ELSE (IF Head(s) = "." THEN r ELSE <<Head(s)>>) \o ReplaceDots(Tail(s), r)

\* ------------------------------------------------------ naming and port
Latest == <<"l", "a", "t", "e", "s", "t">>
mysqlRootPassword == <<"docker-mysql-root-password">>

getContainerName(mysqlVersion) == <<"docker-mysql-">> \o ReplaceDots(mysqlVersion, <<"-">>)

getPort_LastThree(mysqlVersion) ==
  IF mysqlVersion = Latest THEN <<"3", "3", "0", "6">>
  ELSE <<"3">> \o SliceLast(<<"0", "0", "0">> \o ReplaceDots(mysqlVersion, <<>>), 3)
getPort(mysqlVersion) ==
  IF mysqlVersion = Latest THEN <<"3", "3", "0", "6">>
  ELSE <<"3">> \o SliceLast(<<"0", "0", "0">> \o SliceFirst(ReplaceDots(mysqlVersion, <<>>), 3), 3)

\* ------------------------------------------------------------ retryCommand
\* The acceptable-failure strings of the three callers, as word sequences.
DatabaseExists == <<"database", "exists">>
Error1396 == <<"ERROR", "1396">>
CallerStrs == {Some(DatabaseExists), Some(Error1396), Undefined}

\* How an invocation of the action ends: it succeeds, or fails with a value
\* whose stderr is a text or is missing.
Ok == [ok |-> TRUE, stderr |-> Undefined]
Fail(e) == [ok |-> FALSE, stderr |-> e]
NoResult == [ok |-> FALSE, stderr |-> Some(<<"none">>)]

Words == {"ERROR", "1396", "database", "exists"}
ErrTexts == SeqsUpTo(Words, MaxErrLen)
Outcomes == {Ok} \cup {Fail(Some(t)) : t \in ErrTexts} \cup {Fail(Undefined)}

\* The failure o carries a stderr text that contains the string str.
ContainsStr(str, o) ==
  ~o.ok /\ str.def /\ str.val # <<>> /\ o.stderr.def /\ Includes(o.stderr.val, str.val)

\* lines 69-71, 90: the promise is created and loop() arms the first timer.
RetryStart(str) ==
  /\ successErrorStr' = str
  /\ promise' = "pending"
  /\ timer' = TRUE
  /\ inflight' = FALSE
  /\ threw' = FALSE
  /\ attempts' = 0
  /\ fails' = 0
  /\ lastResult' = NoResult
  /\ matched' = FALSE
  /\ running' = 0
  /\ resolves' = 0

\* lines 71-73: the timer fires and the action is invoked.
RetryTimerFire_Interval ==
  /\ timer
  /\ attempts < MaxAttempts
  /\ timer' = TRUE
  /\ inflight' = TRUE
  /\ running' = running + 1
  /\ attempts' = attempts + 1
  /\ UNCHANGED <<successErrorStr, promise, threw, fails, lastResult, matched, resolves>>
RetryTimerFire ==
  /\ timer
  /\ attempts < MaxAttempts
  /\ timer' = FALSE
  /\ inflight' = TRUE
  /\ running' = running + 1
  /\ attempts' = attempts + 1
  /\ UNCHANGED <<successErrorStr, promise, threw, fails, lastResult, matched, resolves>>

\* lines 74-86: what the then/catch handlers do with the way the action ended:
\* "resolve", "loop" or "throw" (e.stderr.toString() on a missing stderr).
Handle_NoReturn(str, o) ==
  IF o.ok THEN "resolve"
  ELSE IF Truthy(str)
    THEN (IF ~o.stderr.def THEN "throw" ELSE "loop")
    ELSE "loop"
Handle_Or(str, o) ==
  IF o.ok THEN "resolve"
  ELSE IF Truthy(str)
    THEN "resolve"
    ELSE "loop"
Handle(str, o) ==
  IF o.ok THEN "resolve"
  ELSE IF Truthy(str)
    THEN (IF ~o.stderr.def THEN "throw"
          ELSE IF Includes(o.stderr.val, str.val) THEN "resolve" ELSE "loop")
    ELSE "loop"

RetrySettle(o) ==
  /\ inflight
  /\ inflight' = (running > 1)
  /\ running' = running - 1
  /\ resolves' = IF Handle(successErrorStr, o) = "resolve" THEN resolves + 1 ELSE resolves
  /\ lastResult' = o
  /\ matched' = (matched \/ ContainsStr(successErrorStr, o))
  /\ fails' = IF o.ok THEN fails ELSE fails + 1
  /\ promise' = IF Handle(successErrorStr, o) = "resolve" THEN "resolved" ELSE promise
  /\ timer' = (Handle(successErrorStr, o) = "loop")
  /\ threw' = (Handle(successErrorStr, o) = "throw")
  /\ UNCHANGED <<successErrorStr, attempts>>

\* ------------------------------------------------------ the command line
\* Any string is taken as a version: "8-0" derives the container name of "8.0".
Versions == {<<"8", ".", "0">>, <<"5", ".", "7">>, <<"8", "-", "0">>}
Names == {getContainerName(v) : v \in Versions}
DbNames == {"d1"}
UserOptions == {Undefined, Some(<<>>), Some(<<"u1">>)}
PasswordOptions == {Undefined, Some(<<>>), Some(<<"p1">>)}
Root == <<"root">>

\* What the program.command(..) declarations parse: the positional arguments
\* and the options a command declares (an option not given is undefined).
Prepare(v, d, u, p) ==
  [name |-> "prepare", mysqlVersion |-> v, databaseName |-> d, userName |-> u,
   password |-> p, volume |-> FALSE]
ExecCmd(v, u, p) ==
  [name |-> "exec", mysqlVersion |-> v, databaseName |-> "d1", userName |-> u,
   password |-> p, volume |-> FALSE]
Stop(v) ==
  [name |-> "stop", mysqlVersion |-> v, databaseName |-> "d1", userName |-> Undefined,
   password |-> Undefined, volume |-> FALSE]
Rm(v, d, u, p) ==
  [name |-> "rm", mysqlVersion |-> v, databaseName |-> d, userName |-> u,
   password |-> p, volume |-> FALSE]
Down(v, vol) ==
  [name |-> "down", mysqlVersion |-> v, databaseName |-> "d1", userName |-> Undefined,
   password |-> Undefined, volume |-> vol]
CommandLines ==
  {Prepare(v, d, u, p) : v \in Versions, d \in DbNames, u \in UserOptions, p \in PasswordOptions}
  \cup {ExecCmd(v, u, p) : v \in Versions, u \in UserOptions, p \in PasswordOptions}
  \cup {Stop(v) : v \in Versions}
  \cup {Rm(v, d, u, p) : v \in Versions, d \in DbNames, u \in UserOptions, p \in PasswordOptions}
  \cup {Down(v, vol) : v \in Versions, vol \in BOOLEAN}
NoCmd == Stop(<<>>)

\* ------------------------------------------------- the external commands
\* A template literal `${x}`: undefined prints as "undefined".
Interp(x) == IF x.def THEN x.val ELSE <<"undefined">>

\* An entry of the trace: an external command issued (k is its kind; res is
\* "pending" while it runs, then "ok" or "fail"), or a step of prepare
\* completed (k = "done:<step>", res = "mark").
Ev(k, n, u, p, d) ==
  [k |-> k, name |-> n, user |-> u, pwd |-> p, db |-> d, res |-> "pending"]
Docker(k, mysqlVersion) == Ev(k, getContainerName(mysqlVersion), <<>>, <<>>, "")
Mark(k) == [Ev(k, <<>>, <<>>, <<>>, "") EXCEPT !.res = "mark"]
\* The trace once the command in flight (its last entry) has ended.
Settled(ok) == [trace EXCEPT ![Len(trace)].res = IF ok THEN "ok" ELSE "fail"]

\* lines 35-62: the docker exec .. mysql command that execMysql issues: with
\* neither a user name nor a password given, root and the root password.
execMysql_Or(mysqlVersion, k, d, userName, password) ==
  IF ~userName.def \/ ~password.def
  THEN Ev(k, getContainerName(mysqlVersion), Root, mysqlRootPassword, d)
  ELSE Ev(k, getContainerName(mysqlVersion), Interp(userName), Interp(password), d)
execMysql(mysqlVersion, k, d, userName, password) ==
  IF ~userName.def /\ ~password.def
  THEN Ev(k, getContainerName(mysqlVersion), Root, mysqlRootPassword, d)
  ELSE Ev(k, getContainerName(mysqlVersion), Interp(userName), Interp(password), d)

\* The error texts of the runtime and of the mysql client, as words.
ErrNotRunning == <<"Error", "container", "is", "not", "running">>
ErrNotReady == <<"ERROR", "2002", "cannot", "connect">>
ErrAccessDenied == <<"ERROR", "1045", "access", "denied">>
ErrDbExists == <<"ERROR", "1007", "cannot", "create", "database", "exists">>
ErrNoDb == <<"ERROR", "1008", "cannot", "drop", "database">>
ErrUserExists == <<"ERROR", "1396", "operation", "CREATE", "USER", "failed">>
ErrNoUser == <<"ERROR", "1410", "not", "allowed", "to", "create", "user", "with", "GRANT">>

\* What the engine answers to the command e and what it stores afterwards.
MysqlResult(e) ==
  LET n == e.name
      same == [o |-> Ok, dbs |-> dbs[n], users |-> users[n], grants |-> grants[n]]
      fail(t) == [same EXCEPT !.o = Fail(Some(t))]
      admin == e.user = Root /\ e.pwd = mysqlRootPassword
      account == <<e.user, e.pwd>> \in users[n]
      name == IF e.k = "create user" \/ e.k = "grant" THEN cmd.userName.val ELSE <<>>
  IN  IF container[n] # "running" THEN fail(ErrNotRunning)
      ELSE IF ~ready[n] THEN fail(ErrNotReady)
      ELSE IF ~(admin \/ account) THEN fail(ErrAccessDenied)
      ELSE IF e.k = "create database" THEN
        (IF ~admin THEN fail(ErrAccessDenied)
         ELSE IF e.db \in dbs[n] THEN fail(ErrDbExists)
         ELSE [same EXCEPT !.dbs = dbs[n] \cup {e.db}])
      ELSE IF e.k = "create user" THEN
        (IF ~admin THEN fail(ErrAccessDenied)
         ELSE IF \E a \in users[n] : a[1] = name THEN fail(ErrUserExists)
         ELSE [same EXCEPT !.users = users[n] \cup {<<name, cmd.password.val>>}])
      ELSE IF e.k = "grant" THEN
        (IF ~admin THEN fail(ErrAccessDenied)
         ELSE IF ~\E a \in users[n] : a[1] = name THEN fail(ErrNoUser)
         ELSE [same EXCEPT !.grants = grants[n] \cup {<<name, e.db>>}])
      ELSE IF e.k = "drop database" THEN
        (IF ~(admin \/ <<e.user, e.db>> \in grants[n]) THEN fail(ErrAccessDenied)
         ELSE IF e.db \notin dbs[n] THEN fail(ErrNoDb)
         ELSE [same EXCEPT !.dbs = dbs[n] \ {e.db}])
      ELSE same

Store(n, r) ==
  /\ dbs' = [dbs EXCEPT ![n] = r.dbs]
  /\ users' = [users EXCEPT ![n] = r.users]
  /\ grants' = [grants EXCEPT ![n] = r.grants]
  /\ madeFor' = madeFor

\* docker start <name>: an existing container runs afterwards; the command
\* fails when there is none, and may fail for any other cause.
DockerStart(n, ok) ==
  IF ok
  THEN /\ container[n] # "absent"
       /\ container' = [container EXCEPT ![n] = "running"]
       /\ ready' = [ready EXCEPT ![n] = (container[n] = "running" /\ ready[n])]
       /\ UNCHANGED <<volume, data>>
  ELSE UNCHANGED wvars

\* The tags of the mysql image: mysql:8-0 does not exist.
ImageTags == {<<"8", ".", "0">>, <<"5", ".", "7">>}

\* docker run --name <name> .. --volume <name>:/var/lib/mysql -d mysql:<v>:
\* creates and starts the container, and the volume when there is none; it
\* fails when the name is taken or the image does not exist.
DockerRun(n, ok) ==
  IF ok
  THEN /\ container[n] = "absent"
       /\ cmd.mysqlVersion \in ImageTags
       /\ container' = [container EXCEPT ![n] = "running"]
       /\ ready' = [ready EXCEPT ![n] = FALSE]
       /\ volume' = [volume EXCEPT ![n] = TRUE]
       /\ madeFor' = IF volume[n] THEN madeFor
                     ELSE [madeFor EXCEPT ![n] = cmd.mysqlVersion]
       /\ UNCHANGED <<dbs, users, grants>>
  ELSE UNCHANGED wvars

\* docker stop <name>
DockerStop(n, ok) ==
  IF ok
  THEN /\ container[n] # "absent"
       /\ container' = [container EXCEPT ![n] = "stopped"]
       /\ ready' = [ready EXCEPT ![n] = FALSE]
       /\ UNCHANGED <<volume, data>>
  ELSE UNCHANGED wvars

\* docker rm -f <name>
DockerRm(n, ok) ==
  IF ok
  THEN /\ container' = [container EXCEPT ![n] = "absent"]
       /\ ready' = [ready EXCEPT ![n] = FALSE]
       /\ UNCHANGED <<volume, data>>
  ELSE UNCHANGED wvars

\* docker volume rm -f <name>: refused while a container uses the volume.
DockerVolumeRm(n, ok) ==
  IF ok
  THEN /\ container[n] = "absent"
       /\ volume' = [volume EXCEPT ![n] = FALSE]
       /\ dbs' = [dbs EXCEPT ![n] = {}]
       /\ users' = [users EXCEPT ![n] = {}]
       /\ grants' = [grants EXCEPT ![n] = {}]
       /\ madeFor' = [madeFor EXCEPT ![n] = <<>>]
       /\ UNCHANGED <<container, ready>>
  ELSE UNCHANGED wvars

\* ------------------------------------------------------------- prepare
RetrySteps == {"createDatabase", "createUser", "grant"}

\* lines 98, 112, 126: the acceptable-failure string of each retried step.
StepErrorStr_NoneAcceptable(step) == Undefined
StepErrorStr(step) ==
  CASE step = "createDatabase" -> Some(DatabaseExists)
    [] step = "createUser" -> Some(Error1396)
    [] OTHER -> Undefined

\* lines 97, 108-111, 122-125: the command a retried step issues.
StepCommand(step, c) ==
  execMysql(c.mysqlVersion,
            CASE step = "createDatabase" -> "create database"
              [] step = "createUser" -> "create user"
              [] OTHER -> "grant",
            c.databaseName, Undefined, Undefined)

\* lines 170-177: what prepare does once a step has completed.
AfterStep_AlwaysUser(step, c) ==
  CASE step = "createDatabase" -> "createUser"
    [] step = "createUser" -> "grant"
    [] OTHER -> "success"
AfterStep_GrantFirst(step, c) ==
  CASE step = "createDatabase" ->
         (IF Truthy(c.userName) /\ Truthy(c.password) THEN "grant" ELSE "success")
    [] step = "grant" -> "createUser"
    [] OTHER -> "success"
AfterStep(step, c) ==
  CASE step = "createDatabase" ->
         (IF Truthy(c.userName) /\ Truthy(c.password) THEN "createUser" ELSE "success")
    [] step = "createUser" -> "grant"
    [] OTHER -> "success"

\* line 168: up has returned; createDatabase starts its retry loop.
EnterCreateDatabase ==
  /\ RetryStart(StepErrorStr("createDatabase"))
  /\ pc' = "createDatabase"
  /\ trace' = Append(Settled(TRUE), Mark("done:up"))
  /\ UNCHANGED <<cmd, report>>

\* lines 130-136: docker start has ended; up returns when it succeeded and
\* issues docker run (lines 138-154) when it failed.
UpAfterStart_RunAnyway(ok) ==
  /\ pc' = "up.run"
  /\ trace' = Append(Settled(ok), Docker("run", cmd.mysqlVersion))
  /\ UNCHANGED <<cmd, report, rvars>>
UpAfterStart(ok) ==
  IF ok THEN EnterCreateDatabase
  ELSE /\ pc' = "up.run"
       /\ trace' = Append(Settled(FALSE), Docker("run", cmd.mysqlVersion))
       /\ UNCHANGED <<cmd, report, rvars>>

StartDone ==
  /\ pc = "up.start"
  /\ \E ok \in BOOLEAN :
       /\ DockerStart(getContainerName(cmd.mysqlVersion), ok)
       /\ UpAfterStart(ok)
  /\ UNCHANGED <<pvars, qvars>>

\* lines 138-154, 167-168: where prepare is once docker run has ended: its
\* failure is the failure of up and of prepare.
AfterRun_Swallow(ok) == "createDatabase"
AfterRun(ok) == IF ok THEN "createDatabase" ELSE "failed"

\* lines 138-154, 167: docker run has ended; its failure fails prepare.
RunDone ==
  /\ pc = "up.run"
  /\ \E ok \in BOOLEAN :
       /\ DockerRun(getContainerName(cmd.mysqlVersion), ok)
       /\ IF AfterRun(ok) = "createDatabase" THEN EnterCreateDatabase
          ELSE /\ pc' = "failed"
               /\ trace' = Settled(FALSE)
               /\ UNCHANGED <<cmd, report, rvars>>
  /\ UNCHANGED <<pvars, qvars>>

\* lines 71-73 in a step of prepare: the timer fires and the step's command
\* is issued.
AttemptTimer ==
  /\ pc \in RetrySteps
  /\ RetryTimerFire
  /\ trace' = Append(trace, StepCommand(pc, cmd))
  /\ UNCHANGED <<cmd, pc, report, pvars, qvars, wvars>>

\* lines 74-86 in a step of prepare, and the continuation of prepare when the
\* loop resolves (lines 168-177).
AttemptDone ==
  /\ pc \in RetrySteps
  /\ inflight
  /\ LET e == StepCommand(pc, cmd)
         r == MysqlResult(e)
         nx == AfterStep(pc, cmd)
     IN  /\ Store(e.name, r)
         /\ IF Handle(successErrorStr, r.o) # "resolve"
            THEN /\ RetrySettle(r.o)
                 /\ trace' = Settled(r.o.ok)
                 /\ UNCHANGED <<cmd, pc, report>>
            ELSE IF nx = "success"
            THEN /\ RetrySettle(r.o)
                 /\ pc' = "done"
                 /\ report' = Some(getPort(cmd.mysqlVersion))
                 /\ trace' = Settled(r.o.ok) \o <<Mark("done:" \o pc), Mark("success")>>
                 /\ cmd' = cmd
            ELSE /\ RetryStart(StepErrorStr(nx))
                 /\ pc' = nx
                 /\ trace' = Append(Settled(r.o.ok), Mark("done:" \o pc))
                 /\ UNCHANGED <<cmd, report>>
  /\ UNCHANGED <<pvars, qvars, container, ready, volume>>

\* ------------------------------------------------- exec, stop, rm, down
\* lines 192-195: exec ends as its command ends.
ExecDone ==
  /\ pc = "exec"
  /\ LET r == MysqlResult(trace[Len(trace)])
     IN  /\ Store(trace[Len(trace)].name, r)
         /\ pc' = IF r.o.ok THEN "done" ELSE "failed"
         /\ trace' = Settled(r.o.ok)
  /\ UNCHANGED <<cmd, report, rvars, pvars, qvars, container, ready, volume>>

\* line 200: stop ends as docker stop ends.
StopDone ==
  /\ pc = "stop"
  /\ \E ok \in BOOLEAN :
       /\ DockerStop(getContainerName(cmd.mysqlVersion), ok)
       /\ pc' = IF ok THEN "done" ELSE "failed"
       /\ trace' = Settled(ok)
  /\ UNCHANGED <<cmd, report, rvars, pvars, qvars>>

\* lines 214-218: the drop command has ended; .catch(() => {}) takes a failure.
RmAfterDrop_NoCatch(o) == IF o.ok THEN "done" ELSE "failed"
RmAfterDrop(o) == "done"

RmDone ==
  /\ pc = "rm"
  /\ LET r == MysqlResult(trace[Len(trace)])
     IN  /\ Store(trace[Len(trace)].name, r)
         /\ pc' = RmAfterDrop(r.o)
         /\ trace' = Settled(r.o.ok)
  /\ UNCHANGED <<cmd, report, rvars, pvars, qvars, container, ready, volume>>

\* lines 226-234: docker rm -f has ended; with the volume option, docker
\* volume rm -f follows.
DownAfterRm_AlwaysVolume(ok, vol) ==
  IF ~ok THEN "failed" ELSE "down.volume"
DownAfterRm_IgnoreFailure(ok, vol) ==
  IF vol THEN "down.volume" ELSE IF ok THEN "done" ELSE "failed"
DownAfterRm(ok, vol) ==
  IF ~ok THEN "failed" ELSE IF vol THEN "down.volume" ELSE "done"

DownRmDone ==
  /\ pc = "down.rm"
  /\ \E ok \in BOOLEAN :
       /\ DockerRm(getContainerName(cmd.mysqlVersion), ok)
       /\ pc' = DownAfterRm(ok, cmd.volume)
       /\ trace' = IF DownAfterRm(ok, cmd.volume) = "down.volume"
                   THEN Append(Settled(ok), Docker("volume rm", cmd.mysqlVersion))
                   ELSE Settled(ok)
  /\ UNCHANGED <<cmd, report, rvars, pvars, qvars>>

DownVolumeDone ==
  /\ pc = "down.volume"
  /\ \E ok \in BOOLEAN :
       /\ DockerVolumeRm(getContainerName(cmd.mysqlVersion), ok)
       /\ pc' = IF ok THEN "done" ELSE "failed"
       /\ trace' = Settled(ok)
  /\ UNCHANGED <<cmd, report, rvars, pvars, qvars>>

\* line 237: program.parse dispatches the command line; the action issues its
\* first external command.
FirstCommand(c) ==
  CASE c.name = "prepare" -> Docker("start", c.mysqlVersion)
    [] c.name = "exec" ->
         execMysql(c.mysqlVersion, "exec", c.databaseName, c.userName, c.password)
    [] c.name = "stop" -> Docker("stop", c.mysqlVersion)
    [] c.name = "rm" ->
         execMysql(c.mysqlVersion, "drop database", c.databaseName, c.userName, c.password)
    [] OTHER -> Docker("rm", c.mysqlVersion)
FirstPc(c) ==
  CASE c.name = "prepare" -> "up.start"
    [] c.name = "down" -> "down.rm"
    [] OTHER -> c.name

Launch ==
  /\ pc = "idle"
  /\ \E c \in CommandLines :
       /\ cmd' = c
       /\ pc' = FirstPc(c)
       /\ trace' = <<FirstCommand(c)>>
  /\ report' = Undefined
  /\ UNCHANGED <<rvars, pvars, qvars, wvars>>

\* The action has ended (its promise fulfilled, or rejected and unhandled) and
\* nothing is pending: the process exits and its memory is gone.
Exit ==
  /\ pc \in {"done", "failed"}
  /\ cmd' = NoCmd
  /\ pc' = "idle"
  /\ trace' = <<>>
  /\ report' = Undefined
  /\ successErrorStr' = Undefined
  /\ promise' = "none"
  /\ timer' = FALSE
  /\ inflight' = FALSE
  /\ threw' = FALSE
  /\ attempts' = 0
  /\ fails' = 0
  /\ lastResult' = NoResult
  /\ matched' = FALSE
  /\ running' = 0
  /\ resolves' = 0
  /\ UNCHANGED <<pvars, qvars, wvars>>

\* ------------------------------------------ the engine in the container
\* The engine of a running container starts accepting connections, and (the
\* image restarts it while it initialises) stops accepting them again.
EngineReady ==
  /\ \E n \in Names :
       /\ container[n] = "running" /\ ~ready[n]
       /\ ready' = [ready EXCEPT ![n] = TRUE]
  /\ UNCHANGED <<container, volume, data, tvars, rvars, pvars, qvars>>

EngineRestart ==
  /\ \E n \in Names :
       /\ container[n] = "running" /\ ready[n]
       /\ ready' = [ready EXCEPT ![n] = FALSE]
  /\ UNCHANGED <<container, volume, data, tvars, rvars, pvars, qvars>>

ToolInit ==
  /\ cmd = NoCmd
  /\ pc = "idle"
  /\ trace = <<>>
  /\ report = Undefined
  /\ pc2 = "idle"
  /\ trace2 = <<>>

WorldInit ==
  /\ container = [n \in Names |-> "absent"]
  /\ ready = [n \in Names |-> FALSE]
  /\ volume = [n \in Names |-> FALSE]
  /\ dbs = [n \in Names |-> {}]
  /\ users = [n \in Names |-> {}]
  /\ grants = [n \in Names |-> {}]
  /\ madeFor = [n \in Names |-> <<>>]

\* ------------------------------------------- retryCommand with any action
RetryInit ==
  /\ successErrorStr = Undefined
  /\ promise = "none"
  /\ timer = FALSE
  /\ inflight = FALSE
  /\ threw = FALSE
  /\ attempts = 0
  /\ fails = 0
  /\ lastResult = NoResult
  /\ matched = FALSE
  /\ running = 0
  /\ resolves = 0

PortInit ==
  /\ pv = <<>>
  /\ pport = Undefined

CallRetry ==
  /\ promise = "none"
  /\ \E str \in CallerStrs : RetryStart(str)
  /\ UNCHANGED <<pvars, qvars, tvars, wvars>>

TimerFires ==
  /\ RetryTimerFire
  /\ UNCHANGED <<pvars, qvars, tvars, wvars>>

ActionSettles ==
  /\ \E o \in Outcomes : RetrySettle(o)
  /\ UNCHANGED <<pvars, qvars, tvars, wvars>>

InitRetry == RetryInit /\ PortInit /\ ToolInit /\ WorldInit
NextRetry == CallRetry \/ TimerFires \/ ActionSettles
SpecRetry == InitRetry /\ [][NextRetry]_vars

\* ------------------------------------------------- getPort on any version
VerChars == {"8", "0", "."}
VersionInputs == SeqsUpTo(VerChars, MaxVerLen) \cup {Latest, <<"5", ".", "7">>}

GivePort ==
  /\ \E v \in VersionInputs : pv' = v
  /\ pport' = Undefined
  /\ UNCHANGED <<rvars, tvars, qvars, wvars>>

ComputePort ==
  /\ ~pport.def
  /\ pport' = Some(getPort(pv))
  /\ UNCHANGED <<pv, rvars, tvars, qvars, wvars>>

InitPort == RetryInit /\ PortInit /\ ToolInit /\ WorldInit
NextPort == GivePort \/ ComputePort
SpecPort == InitPort /\ [][NextPort]_vars

\* ------------------------------------------------------- runs of the tool
Init == RetryInit /\ PortInit /\ ToolInit /\ WorldInit
Next ==
  \/ Launch
  \/ StartDone
  \/ RunDone
  \/ AttemptTimer
  \/ AttemptDone
  \/ ExecDone
  \/ StopDone
  \/ RmDone
  \/ DownRmDone
  \/ DownVolumeDone
  \/ Exit
  \/ EngineReady
  \/ EngineRestart
Spec == Init /\ [][Next]_vars

\* --------------------------- runs of the tool with an engine that gets ready
\* The engine of a started container becomes ready and stays ready, after
\* failing at most MaxAttempts - 1 attempts of a step: the last attempt the
\* model follows is made once the engine is ready.
LiveAttemptTimer ==
  /\ pc \in RetrySteps
  /\ attempts < MaxAttempts - 1 \/ ready[getContainerName(cmd.mysqlVersion)]
  /\ AttemptTimer

NextLive ==
  \/ Launch
  \/ StartDone
  \/ RunDone
  \/ LiveAttemptTimer
  \/ AttemptDone
  \/ ExecDone
  \/ StopDone
  \/ RmDone
  \/ DownRmDone
  \/ DownVolumeDone
  \/ Exit
  \/ EngineReady
\* The timer fires, the external commands end, the engine becomes ready.
FairSpec ==
  /\ Init /\ [][NextLive]_vars
  /\ WF_vars(StartDone) /\ WF_vars(RunDone)
  /\ WF_vars(LiveAttemptTimer) /\ WF_vars(AttemptDone)
  /\ WF_vars(EngineReady)

\* ------------------------------ two tool processes running prepare at once
\* Nothing in the tool locks the target: a second process, started with the
\* same command line while the first runs or after it, issues the same
\* commands against the same container name.
PrepareLines == {c \in CommandLines : c.name = "prepare"}
Settled2(ok) == [trace2 EXCEPT ![Len(trace2)].res = IF ok THEN "ok" ELSE "fail"]

\* lines 203-215: the first process starts prepare.
RaceLaunch ==
  /\ pc = "idle" /\ pc2 = "idle"
  /\ \E c \in PrepareLines :
       /\ cmd' = c
       /\ pc' = FirstPc(c)
       /\ trace' = <<FirstCommand(c)>>
  /\ report' = Undefined
  /\ UNCHANGED <<rvars, pvars, qvars, wvars>>

\* lines 203-215, 130-132: the second process starts prepare: docker start.
PeerLaunch ==
  /\ cmd.name = "prepare" /\ pc # "idle" /\ pc2 = "idle"
  /\ pc2' = "up.start"
  /\ trace2' = <<Docker("start", cmd.mysqlVersion)>>
  /\ UNCHANGED <<rvars, pvars, tvars, wvars>>

\* lines 130-154: its docker start has ended; it issues docker run when the
\* start failed.
PeerStartDone ==
  /\ pc2 = "up.start"
  /\ \E ok \in BOOLEAN :
       /\ DockerStart(getContainerName(cmd.mysqlVersion), ok)
       /\ IF ok
          THEN /\ pc2' = "createDatabase"
               /\ trace2' = Append(Settled2(TRUE), Mark("done:up"))
          ELSE /\ pc2' = "up.run"
               /\ trace2' = Append(Settled2(FALSE), Docker("run", cmd.mysqlVersion))
  /\ UNCHANGED <<rvars, pvars, tvars>>

\* lines 138-154, 167-168: its docker run has ended.
PeerRunDone ==
  /\ pc2 = "up.run"
  /\ \E ok \in BOOLEAN :
       /\ DockerRun(getContainerName(cmd.mysqlVersion), ok)
       /\ pc2' = AfterRun(ok)
       /\ trace2' = IF AfterRun(ok) = "failed" THEN Settled2(ok)
                    ELSE Append(Settled2(ok), Mark("done:up"))
  /\ UNCHANGED <<rvars, pvars, tvars>>

\* lines 66-86, 168-177: one attempt of its current step has ended: the step
\* completes on success or on its acceptable failure, and is attempted again
\* otherwise.
PeerAttempt ==
  /\ pc2 \in RetrySteps
  /\ LET e == StepCommand(pc2, cmd)
         r == MysqlResult(e)
         nx == AfterStep(pc2, cmd)
     IN  /\ Store(e.name, r)
         /\ IF Handle(StepErrorStr(pc2), r.o) # "resolve"
            THEN UNCHANGED qvars
            ELSE IF nx = "success"
            THEN /\ pc2' = "done"
                 /\ trace2' = trace2 \o <<Mark("done:" \o pc2), Mark("success")>>
            ELSE /\ pc2' = nx
                 /\ trace2' = Append(trace2, Mark("done:" \o pc2))
  /\ UNCHANGED <<rvars, pvars, tvars, container, ready, volume>>

NextRace ==
  \/ RaceLaunch
  \/ PeerLaunch
  \/ StartDone
  \/ RunDone
  \/ AttemptTimer
  \/ AttemptDone
  \/ PeerStartDone
  \/ PeerRunDone
  \/ PeerAttempt
  \/ EngineReady
  \/ EngineRestart
SpecRace == Init /\ [][NextRace]_vars

\* ======================================================== retryCommand claims

\* C1 (as claimed): while no failure has been an acceptable one, the loop goes
\* on (a timer is pending or the action is running) until an invocation
\* succeeds; the promise is resolved only by a success, after exactly
\* (number of failures) + 1 invocations; and the action is not invoked again
\* once the promise is resolved.
C1_ResolvesAfterKPlusOne ==
  /\ [](promise # "none" /\ ~matched =>
         /\ (promise = "resolved" => lastResult.ok /\ attempts = fails + 1)
         /\ (promise = "pending" => timer \/ inflight))
  /\ [][promise = "resolved" => attempts' = attempts]_vars

\* C2: a failure whose stderr text contains the acceptable-failure string ends
\* the loop on that very attempt: the promise is resolved, no timer is armed,
\* nothing is running, and every invocation so far was a failure (so a first
\* attempt failing that way leaves exactly one invocation).
C2_AcceptableFailureCompletes ==
  ContainsStr(successErrorStr, lastResult) =>
    /\ promise = "resolved"
    /\ ~timer /\ ~inflight /\ ~threw
    /\ attempts = fails
C2_Witness ==
  /\ ContainsStr(successErrorStr, lastResult)
  /\ attempts = 1
  /\ promise = "resolved"

\* C3 (as claimed): while every settled invocation has failed and none with a
\* text containing the acceptable-failure string, the promise stays pending
\* and another attempt is on its way (a timer is pending or the action runs).
C3_NeverCompletes ==
  (promise # "none" /\ ~matched /\ fails >= 1
     /\ fails = attempts - (IF inflight THEN 1 ELSE 0)) =>
    (promise = "pending" /\ (timer \/ inflight))

\* C4 (as claimed): every settling of the action with a failure that does not
\* contain the acceptable-failure string arms the timer of another attempt,
\* whatever the failure value is.
C4_OtherFailureRetries ==
  [][(inflight /\ ~inflight' /\ ~lastResult'.ok
        /\ ~ContainsStr(successErrorStr, lastResult')) => timer']_vars

\* C5: the promise is never rejected, and it is resolved only when the last
\* settled invocation succeeded or failed with a text containing the
\* acceptable-failure string.
C5_NeverSurfacesFailure ==
  /\ promise # "rejected"
  /\ (promise = "resolved" =>
        lastResult.ok \/ ContainsStr(successErrorStr, lastResult))
C5_Witness ==
  /\ promise = "resolved"
  /\ lastResult.ok
  /\ fails >= 2
  /\ Truthy(successErrorStr)

\* ============================================================ getPort claim

\* The reference rule: remove the dots, left-pad with zeros to 3 characters,
\* take the first 3 characters, prefix "3"; "latest" is 3306.
PadStart3(s) == IF Len(s) >= 3 THEN s ELSE [i \in 1..(3 - Len(s)) |-> "0"] \o s
RefPort(v) ==
  IF v = Latest THEN <<"3", "3", "0", "6">>
  ELSE <<"3">> \o SubSeq(PadStart3(ReplaceDots(v, <<>>)), 1, 3)

\* C8: the computed port is the reference rule's; "8.0" gives 3080, "5.7" gives
\* 3057, "latest" gives 3306; and a character appended after the third
\* non-dot character does not change the port.
C8_PortRule ==
  pport.def =>
    /\ pport.val = RefPort(pv)
    /\ (pv = <<"8", ".", "0">> => pport.val = <<"3", "0", "8", "0">>)
    /\ (pv = <<"5", ".", "7">> => pport.val = <<"3", "0", "5", "7">>)
    /\ (pv = Latest => pport.val = <<"3", "3", "0", "6">>)
    /\ (pv # Latest /\ Len(ReplaceDots(pv, <<>>)) >= 3 =>
          \A c \in VerChars : getPort(pv \o <<c>>) = pport.val)
C8_Witness ==
  /\ pport.def
  /\ Len(ReplaceDots(pv, <<>>)) > 3
  /\ Len(pv) > Len(ReplaceDots(pv, <<>>))

\* ============================================================== tool claims
Has(k) == \E i \in 1..Len(trace) : trace[i].k = k
Count(k) == Cardinality({i \in 1..Len(trace) : trace[i].k = k})
\* Every entry of kind a comes before every entry of kind b.
Before(a, b) ==
  \A i, j \in 1..Len(trace) : trace[i].k = a /\ trace[j].k = b => i < j
UpAndDatabaseKinds ==
  {"start", "run", "done:up", "create database", "done:createDatabase", "success"}

\* C6 (as claimed, "supplied" being "given on the command line"): create-user
\* and grant commands are issued only when both options were given; with one
\* missing only the up and create-database steps run; and a prepare that
\* completes with both given has issued create-user and then grant.
Given(x) == x.def
C6_AsClaimed ==
  cmd.name = "prepare" =>
    /\ (Has("create user") \/ Has("grant") => Given(cmd.userName) /\ Given(cmd.password))
    /\ (~(Given(cmd.userName) /\ Given(cmd.password)) =>
          \A i \in 1..Len(trace) : trace[i].k \in UpAndDatabaseKinds)
    /\ (pc = "done" /\ Given(cmd.userName) /\ Given(cmd.password) =>
          Has("create user") /\ Has("grant") /\ Before("create user", "grant"))

\* C6 (amended): the same with "supplied" being "given and not the empty
\* string": an option given as '' counts as missing.
C6_UserStepsIffBothNonEmpty ==
  cmd.name = "prepare" =>
    /\ (Has("create user") \/ Has("grant") => Truthy(cmd.userName) /\ Truthy(cmd.password))
    /\ (~(Truthy(cmd.userName) /\ Truthy(cmd.password)) =>
          \A i \in 1..Len(trace) : trace[i].k \in UpAndDatabaseKinds)
    /\ (pc = "done" /\ Truthy(cmd.userName) /\ Truthy(cmd.password) =>
          Has("create user") /\ Has("grant") /\ Before("create user", "grant"))
C6_Witness ==
  /\ cmd.name = "prepare"
  /\ pc = "done"
  /\ Has("create user") /\ Has("grant")

\* C7: rm never fails: it ends "done" whatever the drop command did, and it
\* issues the drop command exactly once (its trace is that one command).
C7_RmSwallowsFailure ==
  cmd.name = "rm" =>
    /\ pc \in {"rm", "done"}
    /\ Len(trace) = 1
    /\ trace[1].k = "drop database"
    /\ trace[1].name = getContainerName(cmd.mysqlVersion)
    /\ (pc = "rm") = (trace[1].res = "pending")
C7_Witness ==
  /\ cmd.name = "rm"
  /\ pc = "done"
  /\ trace[1].res = "fail"

\* C9: the trace of prepare is ordered up, create-database, create-user,
\* grant, success: the kinds never go back to an earlier step, a step's
\* commands are issued only after the previous step has completed, a step
\* completes only on an attempt that was not left pending, and while a
\* step is retrying nothing later has been issued.
Rank(k) ==
  CASE k = "start" -> 1
    [] k = "run" -> 2
    [] k = "done:up" -> 3
    [] k = "create database" -> 4
    [] k = "done:createDatabase" -> 5
    [] k = "create user" -> 6
    [] k = "done:createUser" -> 7
    [] k = "grant" -> 8
    [] k = "done:grant" -> 9
    [] k = "success" -> 10
    [] OTHER -> 0
PcRank(p) ==
  CASE p = "up.start" -> 1
    [] p = "up.run" -> 2
    [] p = "createDatabase" -> 4
    [] p = "createUser" -> 6
    [] p = "grant" -> 8
    [] OTHER -> 10
C9_PrepareInOrder ==
  cmd.name = "prepare" =>
    /\ \A i, j \in 1..Len(trace) : i < j => Rank(trace[i].k) <= Rank(trace[j].k)
    /\ \A i \in 1..Len(trace) : Rank(trace[i].k) # 0 /\ Rank(trace[i].k) <= PcRank(pc)
    /\ (Has("create database") => Has("done:up"))
    /\ (Has("create user") => Has("done:createDatabase"))
    /\ (Has("grant") => Has("done:createUser"))
    /\ (Has("success") => Has("done:createDatabase") /\ (Has("grant") = Has("done:grant")))
    /\ \A i \in 1..Len(trace) :
         trace[i].res = "pending" => i = Len(trace) /\ (inflight \/ pc \in {"up.start", "up.run"})
    /\ \A i \in 2..Len(trace) :
         trace[i].res = "mark" /\ trace[i].k # "success" =>
           /\ Rank(trace[i - 1].k) \in {Rank(trace[i].k) - 1, Rank(trace[i].k) - 2}
           /\ trace[i - 1].res \in
                (IF trace[i].k \in {"done:up", "done:grant"} THEN {"ok"} ELSE {"ok", "fail"})
C9_Witness ==
  /\ cmd.name = "prepare"
  /\ pc = "done"
  /\ Count("create database") >= 2
  /\ Count("create user") >= 2
  /\ Has("done:grant")

\* C10: up issues docker start for the derived name first; docker run is
\* issued if and only if that start has failed, at most once and right after
\* it; a successful start is followed by no docker run, and the step that
\* takes it creates no container and no volume.
C10_StartThenRunOnlyOnFailure ==
  /\ [](cmd.name = "prepare" =>
         /\ trace[1].k = "start"
         /\ trace[1].name = getContainerName(cmd.mysqlVersion)
         /\ Count("start") = 1
         /\ (Has("run") = (trace[1].res = "fail"))
         /\ Count("run") <= 1
         /\ (Has("run") => trace[2].k = "run"
                            /\ trace[2].name = getContainerName(cmd.mysqlVersion)))
  /\ [][(pc = "up.start" /\ trace'[1].res = "ok") =>
         /\ volume' = volume
         /\ \A n \in Names : (container[n] = "absent") = (container'[n] = "absent")]_vars
C10_Witness ==
  /\ cmd.name = "prepare"
  /\ trace[1].res = "ok"
  /\ Has("done:up")
  /\ ~Has("run")

\* C11 (as claimed): a volume is removed only by the volume-removal step of a
\* down run with the volume option for the very version whose volume it is;
\* a down without the option leaves every volume as it is and, when it
\* succeeds, the container absent; and the volume removal is issued only
\* after the container removal has succeeded.
C11_AsClaimed ==
  /\ [][\A n \in Names :
          (volume[n] /\ ~volume'[n]) =>
            /\ cmd.name = "down" /\ cmd.volume /\ pc = "down.volume"
            /\ cmd.mysqlVersion = madeFor[n]]_vars
  /\ [][(cmd.name = "down" /\ ~cmd.volume) =>
          /\ volume' = volume
          /\ (pc = "down.rm" /\ pc' = "done" =>
                container'[getContainerName(cmd.mysqlVersion)] = "absent")]_vars
  /\ [](Has("volume rm") =>
          /\ cmd.name = "down" /\ cmd.volume
          /\ trace[1].k = "rm" /\ trace[1].res = "ok" /\ Len(trace) = 2)

\* C11 (amended): the same, the down run being one for any version that
\* derives the volume's name (the container name of the version).
C11_VolumeSurvives ==
  /\ [][\A n \in Names :
          (volume[n] /\ ~volume'[n]) =>
            /\ cmd.name = "down" /\ cmd.volume /\ pc = "down.volume"
            /\ getContainerName(cmd.mysqlVersion) = n]_vars
  /\ [][(cmd.name = "down" /\ ~cmd.volume) =>
          /\ volume' = volume
          /\ (pc = "down.rm" /\ pc' = "done" =>
                container'[getContainerName(cmd.mysqlVersion)] = "absent")]_vars
  /\ [](Has("volume rm") =>
          /\ cmd.name = "down" /\ cmd.volume
          /\ trace[1].k = "rm" /\ trace[1].res = "ok" /\ Len(trace) = 2)
C11_Witness ==
  /\ cmd.name = "down" /\ ~cmd.volume /\ pc = "done"
  /\ container[getContainerName(cmd.mysqlVersion)] = "absent"
  /\ volume[getContainerName(cmd.mysqlVersion)]
  /\ dbs[getContainerName(cmd.mysqlVersion)] # {}

\* The target of the prepare command line c is provisioned: its container
\* runs on its volume, its database exists and, with a user name and a
\* password given, the user exists and holds the grant on the database.
Provisioned(c) ==
  LET n == getContainerName(c.mysqlVersion)
  IN  /\ container[n] = "running" /\ volume[n]
      /\ c.databaseName \in dbs[n]
      /\ (Truthy(c.userName) /\ Truthy(c.password) =>
            /\ \E a \in users[n] : a[1] = c.userName.val
            /\ <<c.userName.val, c.databaseName>> \in grants[n])

\* C12: a step of prepare on a provisioned target changes no container,
\* volume, database, user or grant; with the engine ready every attempt of
\* a step completes the step (a "database exists" or duplicate-user failure
\* counts as success, the grant succeeds); a successful start goes on to
\* create-database; and prepare fails only when docker start itself failed.
C12_RerunIsIdempotent ==
  [][(cmd.name = "prepare" /\ Provisioned(cmd)) =>
      /\ <<container, volume, dbs, users, grants>>' = <<container, volume, dbs, users, grants>>
      /\ (inflight /\ ~inflight' /\ ready[getContainerName(cmd.mysqlVersion)] =>
            /\ pc' # pc
            /\ pc' \in {AfterStep(pc, cmd), "done"}
            /\ (pc' = "done" => report' = Some(getPort(cmd.mysqlVersion))))
      /\ (pc = "up.start" /\ trace'[1].res = "ok" => pc' = "createDatabase")
      /\ (pc # "failed" /\ pc' = "failed" => pc = "up.run")]_vars
C12_Witness ==
  /\ cmd.name = "prepare" /\ pc = "done"
  /\ trace[1].k = "start" /\ trace[1].res = "ok"
  /\ \E i \in 1..Len(trace) : trace[i].k = "create database" /\ trace[i].res = "fail"
                                /\ trace[i + 1].k = "done:createDatabase"
  /\ \E i \in 1..Len(trace) : trace[i].k = "create user" /\ trace[i].res = "fail"
                                /\ trace[i + 1].k = "done:createUser"
  /\ \E i \in 1..Len(trace) : trace[i].k = "grant" /\ trace[i].res = "ok"

\* C13: a failed docker run fails prepare with nothing issued after it and no
\* success report; a failed container removal fails down with no volume
\* removal issued; a failed volume removal, stop or exec command fails its
\* operation; and outside rm an operation that failed has a failed command
\* as the last entry of its trace.
C13_FailuresSurface ==
  /\ (cmd.name = "prepare" /\ Has("run") /\ trace[2].res = "fail" =>
        pc = "failed" /\ Len(trace) = 2 /\ ~report.def)
  /\ (cmd.name = "down" /\ Len(trace) >= 1 /\ trace[1].res = "fail" =>
        pc = "failed" /\ Len(trace) = 1)
  /\ (cmd.name = "down" /\ Has("volume rm") /\ trace[2].res = "fail" => pc = "failed")
  /\ (cmd.name \in {"stop", "exec"} /\ Len(trace) >= 1 /\ trace[1].res = "fail" =>
        pc = "failed")
  /\ (pc = "failed" => trace[Len(trace)].res = "fail")
  /\ (pc = "done" /\ cmd.name # "rm" =>
        \A i \in 1..Len(trace) :
          trace[i].res = "fail" =>
            trace[i].k \in {"start", "create database", "create user", "grant"})
C13_Witness ==
  /\ cmd.name = "prepare" /\ pc = "failed"
  /\ trace[2].k = "run" /\ trace[2].res = "fail"
  /\ container[getContainerName(cmd.mysqlVersion)] = "absent"

\* C14: at most one external command is in flight; an invocation of the
\* retried action starts only from a pending timer, with no invocation in
\* flight, the promise pending and, after the first, the previous invocation
\* failed; a new loop waits on its timer before its first invocation; a timer
\* is never pending while an invocation is in flight; and resolve() is
\* called at most once.
C14_OneCommandAtATime ==
  /\ [](/\ Cardinality({i \in 1..Len(trace) : trace[i].res = "pending"}) <= 1
        /\ running <= 1
        /\ inflight = (running = 1)
        /\ ~(timer /\ running > 0)
        /\ resolves <= 1
        /\ (promise = "pending" /\ attempts = 0 => timer /\ running = 0)
        /\ (pc \in RetrySteps =>
              (running = 1) = (trace[Len(trace)].res = "pending")))
  /\ [][attempts' = attempts + 1 =>
          /\ timer /\ running = 0 /\ promise = "pending"
          /\ (attempts >= 1 => ~lastResult.ok /\ lastResult # NoResult)]_vars
C14_Witness ==
  /\ pc \in RetrySteps
  /\ attempts = 2 /\ running = 1 /\ fails = 1
  /\ ~timer

IsAdmin(e) == e.user = Root /\ e.pwd = mysqlRootPassword
C16_PrepareEventuallyCompletes ==
  (cmd.name = "prepare" /\ Has("done:up")) ~>
    (cmd.name = "prepare" /\ pc = "done" /\ report = Some(RefPort(cmd.mysqlVersion)))
C16_Witness ==
  /\ cmd.name = "prepare" /\ pc = "done"
  /\ report = Some(RefPort(cmd.mysqlVersion))
  /\ \E i \in 1..Len(trace) : trace[i].k = "create database" /\ trace[i].res = "fail"
                                /\ trace[i + 1].k = "create database"

\* C15: two prepare runs for the same version with no container at first are
\* not serialized: both may fail their docker start and both then issue
\* docker run for the same container name; at most one of the two docker run
\* commands succeeds, so once both have ended one of the two runs has failed.
RunOf(t) == {i \in 1..Len(t) : t[i].k = "run"}
C15_RaceOnRun ==
  /\ \A i \in RunOf(trace), j \in RunOf(trace2) :
       /\ trace[i].name = trace2[j].name
       /\ ~(trace[i].res = "ok" /\ trace2[j].res = "ok")
       /\ (trace[i].res # "pending" /\ trace2[j].res # "pending")
            => (pc = "failed" \/ pc2 = "failed")
  /\ (pc = "failed" /\ cmd.name = "prepare") => trace[Len(trace)].k = "run"
  /\ pc2 = "failed" => trace2[Len(trace2)].k = "run"
C15_Witness ==
  /\ cmd.name = "prepare"
  /\ Len(trace) >= 2 /\ Len(trace2) >= 2
  /\ trace[1].k = "start" /\ trace[1].res = "fail"
  /\ trace2[1].k = "start" /\ trace2[1].res = "fail"
  /\ trace[2].k = "run" /\ trace2[2].k = "run"
  /\ trace[2].name = trace2[2].name
  /\ trace[2].res = "ok" /\ pc = "done"
  /\ trace2[2].res = "fail" /\ pc2 = "failed"
  /\ container[trace[2].name] = "running"
====
